---- MODULE Spec2Model ----
(***************************************************************************)
(* Model of blender2.8x/20210515_blender_placing_suzannes.py: main() copies *)
(* a base object COPIES times and places each copy at a random pose,        *)
(* retrying up to MAX_TRYIALS times while the pose overlaps an already      *)
(* placed copy, and giving the copy up otherwise.                           *)
(*                                                                         *)
(* The module constants COPIES, MAX_TRYIALS, Z_OFFSET, PLACING_AREA_RANGE   *)
(* are inputs of the run (variables fixed by Init) so that properties are   *)
(* checked for every configuration within the bounds.  The geometry library *)
(* (BVHTree.overlap) is a symmetric relation on poses chosen by Init.       *)
(***************************************************************************)
EXTENDS Integers, Sequences, FiniteSets, TLC

\* ---------------------------------------------------------------- bounds
MaxCopies == 3        \* COPIES ranges over 0..MaxCopies
MaxTrialsBound == 5   \* MAX_TRYIALS ranges over 0..MaxTrialsBound
NumPoses == 2         \* number of distinct outcomes of the random draws of one trial
Den == 4              \* random.random() returns k/Den, k in 0..Den-1
MaxExtent == 2        \* half-extents of a sampler call range over 0..MaxExtent
MaxZ == 2             \* z bounds of a sampler call range over -MaxZ..MaxZ

\* ------------------------------------------------------ program constants
BASE_OBJ_NAME == "base_obj"
COLLECTION_OF_COPIED == "copied"
Z_OFFSET == 2
AreaX == 5
AreaY == 5
AreaZ == 10
PLACING_AREA_RANGE == <<AreaX, AreaY, AreaZ>>

\* A Z_OFFSET above PLACING_AREA_RANGE[2], the other configuration of SpecZ.
InvertedZOffset == AreaZ + 1

VARIABLES
    copies,       \* COPIES
    maxTrials,    \* MAX_TRYIALS
    zOffset,      \* Z_OFFSET
    overlap,      \* BVHTree.overlap as a relation on poses: overlap[p][q]
    baseExists,   \* whether bpy.data.objects holds BASE_OBJ_NAME
    objects,      \* names in bpy.data.objects other than the base object
    collections,  \* names in bpy.data.collections
    collection,   \* objects linked in the collection named COLLECTION_OF_COPIED
    pc,           \* position of main()
    i,            \* loop variable of the for loop
    trial,        \* trial counter of the while loop
    copied_obj,   \* name of the copy being placed, or NoObject
    location,     \* location sampled for the current trial (scaled by Den)
    rotation,     \* random outcome (pose) of the current trial, 0 before any
    copieds,      \* list of accepted ObjWithBvh
    sampled,      \* number of poses sampled for index i
    totalTrials,  \* number of poses sampled in the whole run
    abandoned,    \* indices reported as given up
    printed,      \* count printed by the summary, -1 before it
    call          \* the last call of a sampler made on its own, or NoCall

vars == <<copies, maxTrials, zOffset, overlap, baseExists, objects, collections,
          collection,
          pc, i, trial, copied_obj, location, rotation, copieds, sampled,
          totalTrials, abandoned, printed, call>>

config == <<copies, maxTrials, zOffset, overlap, baseExists, call>>

NoObject == "no_object"
NoCall == [fn |-> "none", max |-> <<0, 0, 0>>, z_offset |-> 0, draw |-> 0,
           result |-> <<0, 0, 0>>]
OldObject == "stale_object"   \* an object left in the collection by an earlier run

Poses == 1..NumPoses

\* The value (numerator over Den) returned by the k-th random.random() call
\* of a trial whose random outcome is p.
Draw(p, k) == (p - 1 + k) % Den

\* f"{i:03d}": decimal digits of i, zero-padded to width 3.
DigitChar == <<"0", "1", "2", "3", "4", "5", "6", "7", "8", "9">>

RECURSIVE Decimal(_)
Decimal(n) == IF n < 10 THEN DigitChar[n + 1]
              ELSE Decimal(n \div 10) \o DigitChar[(n % 10) + 1]

Format03d(n) == IF n < 10 THEN "00" \o Decimal(n)
                ELSE IF n < 100 THEN "0" \o Decimal(n)
                ELSE Decimal(n)

\* mutant: the name does not hold the index.
CopiedNameNoIndex(n) == "copied_" \o Format03d(0)

\* f"copied_{i:03d}"
CopiedName(n) == "copied_" \o Format03d(n)

\* mutant: the z formula of the variant that adds the offset to the full range.
get_random_location_offset(max, z_offset, p) ==
    << (2 * Draw(p, 0) - Den) * max[1],
       (2 * Draw(p, 1) - Den) * max[2],
       Draw(p, 2) * max[3] + z_offset * Den >>

\* get_random_location(max, z_offset): every coordinate scaled by Den.
get_random_location(max, z_offset, p) ==
    << (2 * Draw(p, 0) - Den) * max[1],
       (2 * Draw(p, 1) - Den) * max[2],
       Draw(p, 2) * (max[3] - z_offset) + z_offset * Den >>

\* 2 * math.pi in units of pi / Den.
TwoPi == 2 * Den

\* mutant: the factor is 4 * 2 * math.pi, two turns either way.
get_random_rotation_wide(p) ==
    << (2 * Draw(p, 3) - Den) * 2 * TwoPi,
       (2 * Draw(p, 4) - Den) * 2 * TwoPi,
       (2 * Draw(p, 5) - Den) * 2 * TwoPi >>

\* get_random_rotation(): (random.random() - 0.5) * 4 * math.pi per axis, in
\* units of pi / Den: (r/Den - 1/2) * 4 * pi = (2r - Den) * 2 * pi / Den.
get_random_rotation(p) ==
    << (2 * Draw(p, 3) - Den) * 2,
       (2 * Draw(p, 4) - Den) * 2,
       (2 * Draw(p, 5) - Den) * 2 >>

\* mutant: the BVH is built with the default location and rotation arguments.
ObjWithBvhDefaultPose(obj, p) == [obj |-> obj, bvh |-> 1]

\* ObjWithBvh(obj, location, rotation): the object and the BVH of its posed mesh.
\* The mesh is fixed, so the BVH is identified by the pose.
ObjWithBvh(obj, p) == [obj |-> obj, bvh |-> p]

\* mutant: the result of bvh.overlap is never read as true.
is_overlap_two_never(obj1, obj2) == FALSE

\* is_overlap_two: whether the two BVHs overlap.
is_overlap_two(obj1, obj2) == overlap[obj1.bvh][obj2.bvh]

\* is_overlap_list: the loop over compare_objs from position k on.
RECURSIVE OverlapFrom(_, _, _)
OverlapFrom(obj, compare_objs, k) ==
    IF k > Len(compare_objs) THEN FALSE
    ELSE IF obj.obj = compare_objs[k].obj THEN OverlapFrom(obj, compare_objs, k + 1)
    ELSE IF is_overlap_two(obj, compare_objs[k]) THEN TRUE
    ELSE OverlapFrom(obj, compare_objs, k + 1)

\* mutant: the loop returns after its first iteration.
is_overlap_list_first(obj, compare_objs) ==
    compare_objs # <<>> /\ OverlapFrom(obj, <<Head(compare_objs)>>, 1)

is_overlap_list(obj, compare_objs) == OverlapFrom(obj, compare_objs, 1)

SymmetricRelations ==
    {r \in [Poses -> [Poses -> BOOLEAN]] : \A p, q \in Poses : r[p][q] = r[q][p]}

\* The state before main() runs, for a Z_OFFSET drawn from zOffsets.
InitWith(zOffsets) ==
    /\ copies \in 0..MaxCopies
    /\ maxTrials \in 0..MaxTrialsBound
    /\ zOffset \in zOffsets
    /\ overlap \in SymmetricRelations
    /\ baseExists \in BOOLEAN
    /\ \/ collections = {} /\ collection = {} /\ objects = {}
       \/ /\ collections = {COLLECTION_OF_COPIED}
          /\ collection = {OldObject}
          /\ objects = {OldObject}
    /\ pc = "start"
    /\ i = 0
    /\ trial = 0
    /\ copied_obj = NoObject
    /\ location = <<0, 0, 0>>
    /\ rotation = 0
    /\ copieds = <<>>
    /\ sampled = 0
    /\ totalTrials = 0
    /\ abandoned = {}
    /\ printed = -1
    /\ call = NoCall

Init == InitWith({Z_OFFSET})

\* Runs that also cover a Z_OFFSET above PLACING_AREA_RANGE[2].
InitZ == InitWith({Z_OFFSET, InvertedZOffset})

\* main, lines 135-136: look the base object up (None when it is missing).
GetBase ==
    /\ pc = "start"
    /\ pc' = "setup"
    /\ UNCHANGED <<config, collections, objects, collection, i, trial, copied_obj, location,
                   rotation, copieds, sampled, totalTrials, abandoned, printed>>

\* main, lines 139-142: crear_collection removes the objects of an existing
\* collection and the collection, creates an empty one; copieds = [].
crear_collection ==
    /\ pc = "setup"
    /\ objects' = IF COLLECTION_OF_COPIED \in collections
                  THEN objects \ collection
                  ELSE objects
    /\ collections' = (collections \ {COLLECTION_OF_COPIED}) \cup {COLLECTION_OF_COPIED}
    /\ collection' = {}
    /\ copieds' = <<>>
    /\ pc' = "for"
    /\ UNCHANGED <<config, i, trial, copied_obj, location, rotation, sampled,
                   totalTrials, abandoned, printed>>

\* mutant: the loop runs once more than COPIES.
ForGuardInclusive(n, c) == n <= c

\* range(0, COPIES): whether index n is in the range.
ForGuard(n, c) == n < c

\* mutant: the trial counter starts at 0.
InitialTrialZero == 1 - 1

\* trial = 1
InitialTrial == 1

\* main, lines 145-148: next iteration of the for loop. base_obj.copy() raises
\* AttributeError when base_obj is None.
ForNext ==
    /\ pc = "for"
    /\ ForGuard(i, copies)
    /\ IF baseExists
       THEN /\ copied_obj' = CopiedName(i)
            /\ objects' = objects \cup {CopiedName(i)}
            /\ trial' = InitialTrial
            /\ sampled' = 0
            /\ pc' = "while"
       ELSE /\ pc' = "error"
            /\ UNCHANGED <<copied_obj, objects, trial, sampled>>
    /\ UNCHANGED <<config, collections, collection, i, location, rotation, copieds,
                   totalTrials, abandoned, printed>>

\* main, line 181: the for loop is exhausted, print the summary.
Summary ==
    /\ pc = "for"
    /\ ~ForGuard(i, copies)
    /\ printed' = Cardinality(collection)
    /\ pc' = "done"
    /\ UNCHANGED <<config, collections, objects, collection, i, trial, copied_obj, location,
                   rotation, copieds, sampled, totalTrials, abandoned>>

\* mutant: one trial more than MAX_TRYIALS.
WhileGuardOneMore(t, m) == t <= m + 1

\* trial <= MAX_TRYIALS
WhileGuard(t, m) == t <= m

\* main, line 151: the while condition.
WhileTest ==
    /\ pc = "while"
    /\ pc' = IF WhileGuard(trial, maxTrials) THEN "sample" ELSE "giveup"
    /\ UNCHANGED <<config, collections, objects, collection, i, trial, copied_obj, location,
                   rotation, copieds, sampled, totalTrials, abandoned, printed>>

\* main, lines 153-160: sample a location and a rotation for the copy.
Sample ==
    /\ pc = "sample"
    /\ \E p \in Poses :
          /\ location' = get_random_location(PLACING_AREA_RANGE, zOffset, p)
          /\ rotation' = p
    /\ sampled' = sampled + 1
    /\ totalTrials' = totalTrials + 1
    /\ pc' = "test"
    /\ UNCHANGED <<config, collections, objects, collection, i, trial, copied_obj, copieds,
                   abandoned, printed>>

\* mutant: the negation of the test is lost.
AcceptsOverlapping(obj, compare_objs) == is_overlap_list(obj, compare_objs)

\* not is_overlap_list(copied_obj_with_bvh, copieds)
Accepts(obj, compare_objs) == ~is_overlap_list(obj, compare_objs)

\* mutant: the trial counter is advanced twice.
NextTrialTwice(t) == t + 2

\* trial += 1
NextTrial(t) == t + 1

\* mutant: the accepted copy is put at the head of the list.
AcceptIntoFront(list, obj) == <<obj>> \o list

\* copieds.append(copied_obj_with_bvh)
AcceptInto(list, obj) == Append(list, obj)

\* mutant: the accepted copy is not linked.
LinkNothing(linked, obj) == linked

\* copied_collection.objects.link(copied_obj)
Link(linked, obj) == linked \cup {obj}

\* main, lines 160-166: test the candidate; link and append it and break, or
\* count the trial.
Test ==
    /\ pc = "test"
    /\ LET copied_obj_with_bvh == ObjWithBvh(copied_obj, rotation) IN
       IF Accepts(copied_obj_with_bvh, copieds)
       THEN /\ collection' = Link(collection, copied_obj)
            /\ copieds' = AcceptInto(copieds, copied_obj_with_bvh)
            /\ pc' = "giveup"
            /\ UNCHANGED trial
       ELSE /\ trial' = NextTrial(trial)
            /\ pc' = "while"
            /\ UNCHANGED <<collection, copieds>>
    /\ UNCHANGED <<config, collections, objects, i, copied_obj, location, rotation, sampled,
                   totalTrials, abandoned, printed>>

\* mutant: a copy placed on its last trial is given up too.
GivesUpAtLast(t, m) == t >= m

\* mutant: the comparison is off by one the other way.
GivesUpLate(t, m) == t > m + 1

\* trial > MAX_TRYIALS
GivesUp(t, m) == t > m

\* main, lines 169-171: after the while loop, give the copy up when the trials
\* ran out (bpy.data.objects.remove also unlinks it); then the next index.
GiveUp ==
    /\ pc = "giveup"
    /\ IF GivesUp(trial, maxTrials)
       THEN /\ abandoned' = abandoned \cup {i}
            /\ objects' = objects \ {copied_obj}
            /\ collection' = collection \ {copied_obj}
       ELSE UNCHANGED <<abandoned, objects, collection>>
    /\ i' = i + 1
    /\ pc' = "for"
    /\ UNCHANGED <<config, collections, trial, copied_obj, location, rotation, copieds,
                   sampled, totalTrials, printed>>

Next ==
    \/ GetBase
    \/ crear_collection
    \/ ForNext
    \/ Summary
    \/ WhileTest
    \/ Sample
    \/ Test
    \/ GiveUp

Spec == Init /\ [][Next]_vars

SpecZ == InitZ /\ [][Next]_vars

\* The samplers called on their own, with any arguments and any draws.
InitSampler ==
    /\ InitWith({Z_OFFSET})
    /\ copies = 0
    /\ maxTrials = 0
    /\ baseExists
    /\ collections = {}
    /\ \A p, q \in Poses : ~overlap[p][q]

\* get_random_location(max, z_offset) with max[0], max[1] >= 0 and
\* z_offset <= max[2]; outcome p gives the draws Draw(p, 0..2).
CallLocation ==
    \E hx, hy \in 0..MaxExtent, zMin, zMax \in -MaxZ..MaxZ, p \in 1..Den :
        /\ zMin <= zMax
        /\ call' = [fn |-> "location", max |-> <<hx, hy, zMax>>, z_offset |-> zMin,
                    draw |-> p,
                    result |-> get_random_location(<<hx, hy, zMax>>, zMin, p)]
        /\ UNCHANGED <<copies, maxTrials, zOffset, overlap, baseExists, objects,
                       collections, collection, pc, i, trial, copied_obj, location,
                       rotation, copieds, sampled, totalTrials, abandoned, printed>>

\* get_random_rotation(); outcome p gives the draws Draw(p, 3..5).
CallRotation ==
    \E p \in 1..Den :
        /\ call' = [fn |-> "rotation", max |-> <<0, 0, 0>>, z_offset |-> 0,
                    draw |-> p, result |-> get_random_rotation(p)]
        /\ UNCHANGED <<copies, maxTrials, zOffset, overlap, baseExists, objects,
                       collections, collection, pc, i, trial, copied_obj, location,
                       rotation, copieds, sampled, totalTrials, abandoned, printed>>

NextSampler ==
    \/ CallLocation
    \/ CallRotation

SpecSampler == InitSampler /\ [][NextSampler]_vars

\* ------------------------------------------------------------- properties

InLoop == pc \in {"while", "sample", "test", "giveup"}

\* Number of indices of the for loop started so far.
Started == IF InLoop THEN i + 1 ELSE i

\* The names of the copies, by index.
NameOf == [n \in 0..(MaxCopies + 1) |-> CopiedName(n)]

\* Indices whose copy is in copieds.
AcceptedIndices ==
    {n \in DOMAIN NameOf : \E k \in DOMAIN copieds : copieds[k].obj = NameOf[n]}

AllOverlap == \A p, q \in Poses : overlap[p][q]

\* C1: no two distinct entries of copieds overlap, in every reachable state.
C1_NonOverlap ==
    \A a, b \in DOMAIN copieds :
        a # b => ~is_overlap_two(copieds[a], copieds[b])

\* Three copies are placed although some pose of the run was rejected for
\* overlapping a placed copy.
C1_Witness ==
    /\ Len(copieds) >= 3
    /\ totalTrials > Started
    /\ \E p, q \in Poses : overlap[p][q]

\* C2: the number of poses sampled for an index never exceeds maxTrials.
C2_RetryBound == sampled <= maxTrials

\* An index used up all of its trials (at least two) and is about to be given up.
C2_Witness ==
    /\ pc = "giveup"
    /\ trial > maxTrials
    /\ maxTrials >= 2
    /\ sampled = maxTrials

\* C3: the accepted copies are at most the indices started, which are at most
\* copies, and no index has two entries in copieds.
C3_Cardinality ==
    /\ Len(copieds) <= Started
    /\ Started <= copies
    /\ \A a, b \in DOMAIN copieds : a # b => copieds[a].obj # copieds[b].obj

\* Every index of a run of at least two copies was accepted.
C3_Witness ==
    /\ pc = "done"
    /\ copies >= 2
    /\ Len(copieds) = copies

\* Steps one index takes at most: (while, sample, test) per trial, the last
\* evaluation of the while condition, the give-up test and the for step.
StepsPerIndex == 3 * maxTrials + 3

\* Upper bound of the steps left from the head of the for loop at index n.
StepsFromFor(n) == (copies - n) * StepsPerIndex + 1

StepsFromGiveUp == StepsFromFor(i + 1) + 1

StepsFromWhile == 3 * (maxTrials + 1 - trial) + 1 + StepsFromGiveUp

\* Upper bound of the steps main() has left.
StepsLeft ==
    CASE pc = "start" -> StepsFromFor(0) + 2
      [] pc = "setup" -> StepsFromFor(0) + 1
      [] pc = "for" -> StepsFromFor(i)
      [] pc = "while" -> StepsFromWhile
      [] pc = "sample" -> StepsFromWhile - 1
      [] pc = "test" -> StepsFromWhile - 2
      [] pc = "giveup" -> StepsFromGiveUp
      [] OTHER -> 0

\* C4: the run terminates: every step lowers the non-negative bound StepsLeft,
\* the run can always step until it is at the summary (or at the error of a
\* missing base object), and it samples at most copies * maxTrials poses.
C4_Termination ==
    /\ [][StepsLeft' < StepsLeft]_vars
    /\ [](StepsLeft >= 0)
    /\ [](pc \notin {"done", "error"} => ENABLED Next)
    /\ [](pc = "error" => ~baseExists /\ copies > 0)
    /\ [](totalTrials <= copies * maxTrials)

\* The run ended after every index but the first used all of its trials.
C4_Witness ==
    /\ pc = "done"
    /\ copies >= 2
    /\ maxTrials >= 2
    /\ Len(copieds) = 1
    /\ totalTrials = 1 + (copies - 1) * maxTrials

\* C5: every finished index is either accepted or reported abandoned, never
\* both; the run goes through every index; at the end accepted + abandoned =
\* copies; an accepted copy stays in bpy.data.objects and in the collection, an
\* abandoned one is removed.
C5_Accounting ==
    /\ \A n \in 0..(i - 1) : (n \in AcceptedIndices) # (n \in abandoned)
    /\ AcceptedIndices \cap abandoned = {}
    /\ pc = "done" => /\ i = copies
                      /\ Len(copieds) + Cardinality(abandoned) = copies
    /\ \A k \in DOMAIN copieds :
          copieds[k].obj \in objects /\ copieds[k].obj \in collection
    /\ \A n \in abandoned : NameOf[n] \notin objects

\* The last index was accepted on its last allowed trial, after an earlier
\* index had been abandoned.
C5_Witness ==
    /\ pc = "done"
    /\ abandoned # {}
    /\ maxTrials >= 2
    /\ trial = maxTrials
    /\ (copies - 1) \in AcceptedIndices

\* C6: with maxTrials >= 1 the first index is accepted on its first trial, and
\* a run of one copy ends with one placed copy and none abandoned.
C6_ScenarioA ==
    maxTrials >= 1 =>
        /\ (i = 0 /\ pc = "giveup") =>
              /\ trial = 1
              /\ sampled = 1
              /\ copieds = <<ObjWithBvh(NameOf[0], rotation)>>
        /\ i >= 1 => 0 \in AcceptedIndices /\ 0 \notin abandoned
        /\ (pc = "done" /\ copies = 1) =>
              /\ Len(copieds) = 1
              /\ abandoned = {}
              /\ totalTrials = 1
              /\ printed = 1

\* A run of one copy ended, the pose of the copy being one that overlaps itself.
C6_Witness ==
    /\ pc = "done"
    /\ copies = 1
    /\ maxTrials >= 1
    /\ Len(copieds) = 1
    /\ overlap[copieds[1].bvh][copieds[1].bvh]

\* C7: when every two poses overlap and copies, maxTrials >= 1, the run ends
\* with exactly the first index placed and the other copies - 1 abandoned, and
\* an index is given up after exactly maxTrials samples.
C7_ScenarioB ==
    (AllOverlap /\ copies >= 1 /\ maxTrials >= 1) =>
        /\ pc = "done" =>
              /\ Len(copieds) = 1
              /\ AcceptedIndices = {0}
              /\ abandoned = 1..(copies - 1)
              /\ printed = 1
        /\ (pc = "giveup" /\ GivesUp(trial, maxTrials)) => sampled = maxTrials
        /\ \A n \in abandoned : n # 0

\* Scenario B itself: two copies, five trials, every two poses overlap.
C7_Witness ==
    /\ pc = "done"
    /\ AllOverlap
    /\ copies = 2
    /\ maxTrials = 5
    /\ Len(copieds) = 1
    /\ abandoned = {1}
    /\ totalTrials = 6

\* C8: with maxTrials = 0 nothing is sampled, nothing is placed and every index
\* is abandoned; with maxTrials = 1 and every two poses overlapping at most the
\* first index is placed.
C8_Degenerate ==
    /\ maxTrials = 0 =>
          /\ totalTrials = 0
          /\ copieds = <<>>
          /\ \A n \in DOMAIN NameOf : NameOf[n] \notin collection
          /\ abandoned = 0..(Started - 1) \ (IF InLoop THEN {i} ELSE {})
          /\ pc = "done" => abandoned = 0..(copies - 1) /\ printed = 0
    /\ (maxTrials = 1 /\ AllOverlap) =>
          /\ Len(copieds) <= 1
          /\ AcceptedIndices \subseteq {0}

\* A run of at least two copies with maxTrials = 0 ended.
C8_Witness ==
    /\ pc = "done"
    /\ maxTrials = 0
    /\ copies >= 2
    /\ Cardinality(abandoned) = copies

\* C9: when Z_OFFSET is above PLACING_AREA_RANGE[2] no pose is sampled and no
\* copy is placed (the run ends in a configuration error before that).
C9_ConfigurationError ==
    zOffset > PLACING_AREA_RANGE[3] =>
        /\ totalTrials = 0
        /\ copieds = <<>>

\* C10: when the base object is missing, every step of the run either is the
\* lookup of the base object or ends in the error, and no step changes the
\* collection or the objects of the file.
C10_MissingBase ==
    [][~baseExists =>
          /\ pc' \in {"setup", "error"}
          /\ UNCHANGED <<objects, collections, collection>>]_vars

\* C12: a location returned by get_random_location for half-extents hx, hy >= 0
\* and zMin <= zMax has x in [-hx, hx], y in [-hy, hy] and z in [zMin, zMax]
\* (coordinates are scaled by Den), for every draw.
C12_LocationInBounds ==
    call.fn = "location" =>
        /\ -call.max[1] * Den <= call.result[1] /\ call.result[1] <= call.max[1] * Den
        /\ -call.max[2] * Den <= call.result[2] /\ call.result[2] <= call.max[2] * Den
        /\ call.z_offset * Den <= call.result[3] /\ call.result[3] <= call.max[3] * Den

\* A call with a negative minimum z and the largest draw for z returned a z
\* strictly between the bounds, and an x off the centre.
C12_Witness ==
    /\ call.fn = "location"
    /\ call.z_offset < 0
    /\ call.max[3] > 0
    /\ Draw(call.draw, 2) = Den - 1
    /\ call.result[3] > call.z_offset * Den
    /\ call.result[3] < call.max[3] * Den
    /\ call.max[1] > 0
    /\ call.result[1] # 0

\* C18 as stated: every component of get_random_rotation is drawn from
\* [-2*2pi, 2*2pi], the lowest draw giving the lower end -2*2pi.
C18_TwoTurns ==
    call.fn = "rotation" =>
        \A k \in 1..3 :
            /\ -2 * TwoPi <= call.result[k] /\ call.result[k] <= 2 * TwoPi
            /\ Draw(call.draw, k + 2) = 0 => call.result[k] = -2 * TwoPi

\* C18 amended: every component of get_random_rotation is drawn from
\* [-2pi, 2pi), one turn either way, the lowest draw giving -2pi.
C18_OneTurn ==
    call.fn = "rotation" =>
        \A k \in 1..3 :
            /\ -TwoPi <= call.result[k] /\ call.result[k] < TwoPi
            /\ Draw(call.draw, k + 2) = 0 => call.result[k] = -TwoPi

\* A call whose x draw is the lowest and whose y draw is the highest.
C18_Witness ==
    /\ call.fn = "rotation"
    /\ Draw(call.draw, 3) = 0
    /\ call.result[1] = -TwoPi
    /\ Draw(call.draw, 4) # 0

\* Names of the copies in copieds.
AcceptedNames == {copieds[k].obj : k \in DOMAIN copieds}

\* C13: a candidate of index i is tested against every entry of copieds, none
\* being skipped for having the candidate's name; the entries are the accepted
\* copies of the indices below i, none of an abandoned index, all still in
\* bpy.data.objects, and the result is whether the candidate's pose overlaps
\* the pose of some entry.
C13_ComparisonSet ==
    pc = "test" =>
        LET candidate == ObjWithBvh(copied_obj, rotation) IN
        /\ copied_obj = NameOf[i]
        /\ \A k \in DOMAIN copieds : copieds[k].obj # candidate.obj
        /\ is_overlap_list(candidate, copieds)
              = (\E k \in DOMAIN copieds : overlap[rotation][copieds[k].bvh])
        /\ AcceptedIndices \subseteq 0..(i - 1)
        /\ AcceptedIndices \cap abandoned = {}
        /\ AcceptedNames \subseteq objects
        /\ \A n \in abandoned : NameOf[n] \notin objects
        /\ \A a, b \in DOMAIN copieds : a # b => copieds[a].obj # copieds[b].obj

\* The second candidate of an index is tested against a placed copy, an
\* earlier index having been abandoned.
C13_Witness ==
    /\ pc = "test"
    /\ copieds # <<>>
    /\ abandoned # {}
    /\ sampled >= 2

\* The state of the index being placed.
IndexState ==
    CASE pc = "while" /\ trial = InitialTrial -> "Sampling"
      [] pc = "while" /\ trial # InitialTrial -> "Retrying"
      [] pc = "sample" -> "Sampling"
      [] pc = "test" -> "Testing"
      [] pc = "giveup" /\ GivesUp(trial, maxTrials) -> "Abandoned"
      [] pc = "giveup" /\ ~GivesUp(trial, maxTrials) -> "Accepted"
      [] OTHER -> "None"

\* The transitions of the state of an index, the trial counter along them.
IndexTransition ==
    \/ IndexState = "None" /\ IndexState' \in {"Sampling", "None"}
    \/ IndexState = "Sampling" /\ IndexState' = "Sampling" /\ trial' = trial
    \/ IndexState = "Sampling" /\ IndexState' = "Testing" /\ trial' = trial
    \/ IndexState = "Testing" /\ IndexState' = "Accepted" /\ trial' = trial
    \/ IndexState = "Testing" /\ IndexState' = "Retrying" /\ trial' = trial + 1
    \/ /\ IndexState = "Retrying" /\ IndexState' = "Sampling"
       /\ trial <= maxTrials /\ trial' = trial
    \/ /\ IndexState = "Retrying" /\ IndexState' = "Abandoned"
       /\ trial > maxTrials /\ trial' = trial
    \/ IndexState \in {"Accepted", "Abandoned"} /\ IndexState' = "None" /\ i' = i + 1

\* An index starts with trial = 1 in Sampling.
IndexStart ==
    (IndexState = "None" /\ IndexState' # "None") =>
        IndexState' = "Sampling" /\ trial' = 1 /\ sampled' = 0

\* C14 as stated: an index starts in Sampling with trial = 1, takes only the
\* transitions Sampling -> Testing -> {Accepted, Retrying}, Retrying ->
\* {Sampling, Abandoned}, and trial stays within 1..maxTrials+1.
C14_StateMachine ==
    /\ [][IndexTransition /\ IndexStart]_vars
    /\ [](InLoop => trial \in 1..(maxTrials + 1))

\* C14 amended: as stated, and with maxTrials = 0 an index goes from its start
\* to Abandoned without sampling.
C14_StateMachineAmended ==
    /\ [][\/ IndexTransition /\ IndexStart
          \/ /\ maxTrials = 0
             /\ IndexState = "Sampling" /\ pc = "while"
             /\ IndexState' = "Abandoned" /\ trial' = trial /\ sampled' = 0]_vars
    /\ [](InLoop => trial \in 1..(maxTrials + 1))

\* An index other than the first was abandoned after at least two retries.
C14_Witness ==
    /\ IndexState = "Abandoned"
    /\ i >= 1
    /\ maxTrials >= 2
    /\ sampled >= 2

\* C15: the copy appended for an index holds the pose of the candidate just
\* tested, which overlaps no earlier entry, every earlier candidate of the
\* index having been rejected for overlapping an entry; nothing is sampled for
\* the index afterwards; an index is given up after exactly maxTrials rejected
\* candidates, trial - 1 = maxTrials being the count reported.
C15_FirstFit ==
    /\ [][/\ (pc = "test" /\ pc' = "while") =>
                 \E k \in DOMAIN copieds : overlap[rotation][copieds[k].bvh]
          /\ (pc = "test" /\ pc' = "giveup") =>
                 /\ \A k \in DOMAIN copieds : ~overlap[rotation][copieds[k].bvh]
                 /\ copieds' = Append(copieds, [obj |-> copied_obj, bvh |-> rotation])
          /\ pc = "giveup" => pc' \notin {"sample", "test", "while"}
          /\ sampled' # sampled => (pc = "sample" \/ pc = "for")]_vars
    /\ [](pc \in {"while", "sample"} => sampled = trial - 1 /\ NameOf[i] \notin AcceptedNames)
    /\ [](pc = "test" => sampled = trial /\ NameOf[i] \notin AcceptedNames)
    /\ []((pc = "giveup" /\ ~GivesUp(trial, maxTrials)) =>
              /\ sampled = trial
              /\ copieds # <<>>
              /\ copieds[Len(copieds)] = [obj |-> NameOf[i], bvh |-> rotation])
    /\ []((pc = "giveup" /\ GivesUp(trial, maxTrials)) =>
              /\ sampled = maxTrials
              /\ trial - 1 = maxTrials
              /\ NameOf[i] \notin AcceptedNames)

\* An index was accepted on its third candidate, with a pose other than the
\* first one, against a placed copy.
C15_Witness ==
    /\ pc = "giveup"
    /\ ~GivesUp(trial, maxTrials)
    /\ sampled = 3
    /\ Len(copieds) >= 2
    /\ rotation # 1

\* Indices of the entries of copieds, in list order.
IndexOfEntry(k) == CHOOSE n \in DOMAIN NameOf : NameOf[n] = copieds[k].obj

\* C16: copieds changes only in the step that accepts a candidate, which
\* appends one entry and leaves the earlier entries as they were; the entries
\* are in increasing index order.
C16_AppendOnly ==
    /\ [][copieds' # copieds =>
             /\ pc = "test" /\ pc' = "giveup"
             /\ Len(copieds') = Len(copieds) + 1
             /\ SubSeq(copieds', 1, Len(copieds)) = copieds
             /\ copieds'[Len(copieds')].obj = copied_obj]_vars
    /\ [](\A a, b \in DOMAIN copieds : a < b => IndexOfEntry(a) < IndexOfEntry(b))

\* The run ended with two placed copies and an abandoned index.
C16_Witness ==
    /\ pc = "done"
    /\ Len(copieds) = 2
    /\ Cardinality(abandoned) = 1
    /\ copieds[1].bvh # copieds[2].bvh

\* C17: once the collection is created, the objects linked in it are exactly
\* the objects of copieds; the copy being placed is not linked before it is
\* accepted; the summary prints the size of copieds.
C17_LinkedAfterAcceptance ==
    pc \notin {"start", "setup"} =>
        /\ collection = AcceptedNames
        /\ pc \in {"while", "sample", "test"} => copied_obj \notin collection
        /\ \A n \in abandoned : NameOf[n] \notin collection
        /\ pc = "done" => printed = Len(copieds)

\* The run ended with one copy linked and two indices abandoned, the collection
\* of an earlier run having been cleared.
C17_Witness ==
    /\ pc = "done"
    /\ printed = 1
    /\ Cardinality(abandoned) = 2
    /\ OldObject \notin objects

====
